---- MODULE Spec2Model ----
(***************************************************************************)
(* Model of air-submit.py: the command-line client that submits patches    *)
(* (or a patchwork series) to the AIR review service and then polls the    *)
(* service until the review reaches a terminal state.                      *)
(*                                                                         *)
(* Python values are modelled as follows.                                  *)
(*   - an optional value is a sequence of length <= 1: None is <<>>,       *)
(*     a present value x is <<x>>;                                         *)
(*   - a dict is a record; a key is present iff it is in its DOMAIN;       *)
(*   - a str that the program formats is a sequence of tokens, its         *)
(*     length is the sum of the lengths of the tokens.                     *)
(***************************************************************************)
EXTENDS Integers, Sequences, FiniteSets, TLC

(* ---------------- bounds of the model ---------------- *)
\* polling fetches issued by one run (the loop of main is unbounded)
MaxPolls == 2
\* patch files on the command line
MaxPatches == 2
\* entries of the 'review' array of a reply
MaxReviews == 2

(* ---------------- Python helpers ---------------- *)
None == <<>>
Some(x) == <<x>>

\* bool(x) of an optional int / str / list argument
TruthyInt(o) == o # None /\ o[1] # 0
TruthyStr(o) == o # None /\ o[1] # ""

\* d.get(k, default)
Get(d, k, default) == IF k \in DOMAIN d THEN d[k] ELSE default

\* dict with one more key
With(d, k, v) == [x \in DOMAIN d \cup {k} |-> IF x = k THEN v ELSE d[x]]

SeqsUpTo(S, n) == UNION {[1..k -> S] : k \in 0..n}

(* ---------------- strings ---------------- *)
\* str(n) of the small integers that occur
Str(n) ==
    CASE n = 0 -> "0" [] n = 1 -> "1" [] n = 2 -> "2" [] n = 3 -> "3"
      [] n = 4 -> "4" [] n = 5 -> "5" [] n = 6 -> "6" [] n = 7 -> "7"
      [] n = 8 -> "8" [] n = 9 -> "9" [] OTHER -> "N"

\* len() of one token
TokLen(t) ==
    CASE t = "Status: " -> 8
      [] t = "queued" -> 6
      [] t = " (patches ahead: " -> 17
      [] t = ")" -> 1
      [] t = "?" -> 1
      [] t = "in-progress" -> 11
      [] t = " (" -> 2
      [] t = "/" -> 1
      [] t = " patches completed)" -> 19
      [] t = " (setting up...)" -> 16
      [] t = "done" -> 4
      [] t = " patches reviewed)" -> 18
      [] t = "error" -> 5
      [] t = " - " -> 3
      [] t = "unknown error" -> 13
      [] t = "boom" -> 4
      [] t = "paused" -> 6
      [] t = "ESC[0m" -> 4
      [] t = "ESC[91m" -> 5
      [] t = "ESC[92m" -> 5
      [] t = "ESC[93m" -> 5
      [] t = "ESC[94m" -> 5
      [] t = "ESC[96m" -> 5
      [] t = "ESC[1m" -> 4
      [] OTHER -> 1

RECURSIVE StrLen(_)
StrLen(s) == IF s = <<>> THEN 0 ELSE TokLen(Head(s)) + StrLen(Tail(s))

\* class Colors
Colors == [RESET |-> <<"ESC[0m">>, RED |-> <<"ESC[91m">>, GREEN |-> <<"ESC[92m">>,
           YELLOW |-> <<"ESC[93m">>, BLUE |-> <<"ESC[94m">>, CYAN |-> <<"ESC[96m">>,
           BOLD |-> <<"ESC[1m">>]

\* colorize(text, color); isatty is sys.stdout.isatty()
colorize(text, color, isatty) ==
    IF isatty THEN color \o text \o Colors.RESET ELSE text

(* ---------------- the pure functions of the client ---------------- *)
\* mutant: 'error' is not taken for a terminal state
IsTerminal_OnlyDone(state) == state = "done"

\* mutant: every state but 'in-progress' is taken for a terminal state
IsTerminal_NotInProgress(state) == state # "in-progress"

\* mutant: no state is taken for a terminal state
IsTerminal_Never(state) == FALSE

\* mutant: every state but 'queued' and 'in-progress' is taken for terminal
IsTerminal_KnownRunning(state) == state \notin {"queued", "in-progress"}

\* the test of lines 298 and 327: status['status'] in ('done', 'error')
IsTerminal(state) == state \in {"done", "error"}

\* format_status_line(status); status has the key 'status'
format_status_line(status, isatty) ==
    LET state == status.status
        patch_count == Get(status, "patch_count", 0)
        completed == Get(status, "completed_patches", 0)
    IN  IF state = "queued" THEN
            LET queue_len == IF "queue-len" \in DOMAIN status
                             THEN Str(status["queue-len"]) ELSE "?"
            IN  <<"Status: ">> \o colorize(<<"queued">>, Colors.CYAN, isatty)
                  \o <<" (patches ahead: ", queue_len, ")">>
        ELSE IF state = "in-progress" THEN
            IF patch_count > 0
            THEN <<"Status: ">> \o colorize(<<"in-progress">>, Colors.YELLOW, isatty)
                   \o <<" (", Str(completed), "/", Str(patch_count), " patches completed)">>
            ELSE <<"Status: ">> \o colorize(<<"in-progress">>, Colors.YELLOW, isatty)
                   \o <<" (setting up...)">>
        ELSE IF state = "done" THEN
            <<"Status: ">> \o colorize(<<"done">>, Colors.GREEN \o Colors.BOLD, isatty)
               \o <<" (", Str(patch_count), " patches reviewed)">>
        ELSE IF state = "error" THEN
            <<"Status: ">> \o colorize(<<"error">>, Colors.RED \o Colors.BOLD, isatty)
               \o <<" - ", Get(status, "message", "unknown error")>>
        ELSE <<"Status: ", state>>

\* mutant: one section per index 1..patch_count instead of one per entry
print_reviews_ByCount(reviews, patch_count, isatty) ==
    [i \in 1..patch_count |->
        [kind |-> "section",
         header |-> colorize(<<"PATCH ", Str(i), "/", Str(patch_count)>>,
                             Colors.BOLD \o Colors.BLUE, isatty),
         body |-> IF i > Len(reviews) \/ reviews[i] = None
                  THEN colorize(<<"No review comments">>, Colors.GREEN, isatty)
                  ELSE reviews[i][1]]]

\* print_reviews(reviews, patch_count): the sections it prints, in order
print_reviews(reviews, patch_count, isatty) ==
    [i \in 1..Len(reviews) |->
        [kind |-> "section",
         header |-> colorize(<<"PATCH ", Str(i), "/", Str(patch_count)>>,
                             Colors.BOLD \o Colors.BLUE, isatty),
         body |-> IF reviews[i] = None
                  THEN colorize(<<"No review comments">>, Colors.GREEN, isatty)
                  ELSE reviews[i][1]]]

\* mutant: the test for both inputs at once is missing
UsageError_NoBothCheck(a) ==
    IF ~TruthyStr(a.tree)
    THEN Some("--tree is required when submitting new review")
    ELSE IF ~TruthyInt(a.pw_series) /\ a.patches = <<>>
    THEN Some("Must specify either --pw-series or patch files")
    ELSE None

\* lines 254-261 of main: the message of parser.error, or None
UsageError(a) ==
    IF ~TruthyStr(a.tree)
    THEN Some("--tree is required when submitting new review")
    ELSE IF TruthyInt(a.pw_series) /\ a.patches # <<>>
    THEN Some("Cannot specify both --pw-series and patch files")
    ELSE IF ~TruthyInt(a.pw_series) /\ a.patches = <<>>
    THEN Some("Must specify either --pw-series or patch files")
    ELSE None

\* mutant: --review-id only counts when no submission input is given
IsCheckOnly_Exclusive(a) ==
    TruthyStr(a.review_id) /\ a.patches = <<>> /\ a.pw_series = None

\* line 248 of main: the run checks an existing review
IsCheckOnly(a) == TruthyStr(a.review_id)

\* parser.error() of argparse ends the process with status 2
ParserErrorExit == 2
\* sys.exit(1) of every error path; an uncaught exception ends with 1 too
ErrorExit == 1
\* main() returning ends the process with status 0
SuccessExit == 0
\* an uncaught KeyboardInterrupt: status 1, or death by SIGINT (128 + 2)
UncaughtInterruptExits == {1, 130}

\* mutant: the patches are sent last file first
submit_payload_Reversed(token, tree, branch, patches, patchwork_series_id) ==
    LET base == [token |-> token, tree |-> tree]
        withBranch(p) == IF TruthyStr(branch) THEN With(p, "branch", branch[1]) ELSE p
        rev(s) == [i \in 1..Len(s) |-> s[Len(s) + 1 - i]]
    IN  IF patches # None /\ patches[1] # <<>>
        THEN Some(withBranch(With(base, "patches", rev(patches[1]))))
        ELSE IF TruthyInt(patchwork_series_id)
        THEN Some(withBranch(With(base, "patchwork_series_id", patchwork_series_id[1])))
        ELSE None

\* lines 81-95 of submit_review: the JSON body, or None for the local error
submit_payload(token, tree, branch, patches, patchwork_series_id) ==
    LET base == [token |-> token, tree |-> tree]
        withBranch(p) == IF TruthyStr(branch) THEN With(p, "branch", branch[1]) ELSE p
    IN  IF patches # None /\ patches[1] # <<>>
        THEN Some(withBranch(With(base, "patches", patches[1])))
        ELSE IF TruthyInt(patchwork_series_id)
        THEN Some(withBranch(With(base, "patchwork_series_id", patchwork_series_id[1])))
        ELSE None

\* mutant: the review ID and the token are swapped
get_params_Swapped(token, rid, fmt) ==
    LET base == [id |-> token, token |-> rid]
    IN  IF fmt # None THEN With(base, "format", fmt[1]) ELSE base

\* mutant: every request carries a format, the default one when none is given
get_params_AlwaysFormat(token, rid, fmt) ==
    [id |-> rid, token |-> token, format |-> IF fmt # None THEN fmt[1] ELSE "inline"]

\* mutant: the request does not carry the review ID it was given
get_params_NoId(token, rid, fmt) ==
    LET base == [id |-> "", token |-> token]
    IN  IF fmt # None THEN With(base, "format", fmt[1]) ELSE base

\* lines 124-130 of get_review_status: the query parameters
get_params(token, rid, fmt) ==
    LET base == [id |-> rid, token |-> token]
    IN  IF fmt # None THEN With(base, "format", fmt[1]) ELSE base

\* mutant: line 353 tests for a state the service never reports
render_poll_NoFinalCheck(final_status, isatty) ==
    LET reviews == Get(final_status, "review", <<>>)
        patch_count == Get(final_status, "patch_count", 0)
        hasStatus == "status" \in DOMAIN final_status
        isError == hasStatus /\ final_status.status = "error"
        msg == Get(final_status, "message", "Unknown error")
    IN  IF reviews = <<>>
        THEN [out |-> <<[kind |-> "no_reviews"]>>
                      \o (IF isError THEN <<[kind |-> "error_msg", msg |-> msg]>> ELSE <<>>),
              crash |-> ~hasStatus,
              code |-> IF isError \/ ~hasStatus THEN ErrorExit ELSE SuccessExit]
        ELSE [out |-> print_reviews(reviews, patch_count, isatty),
              crash |-> ~hasStatus,
              code |-> IF ~hasStatus THEN ErrorExit ELSE SuccessExit]

\* lines 340-354 of main: what the polling mode prints for the final reply,
\* the exit status, and whether final_status['status'] raised KeyError
render_poll(final_status, isatty) ==
    LET reviews == Get(final_status, "review", <<>>)
        patch_count == Get(final_status, "patch_count", 0)
        hasStatus == "status" \in DOMAIN final_status
        isError == hasStatus /\ final_status.status = "error"
        msg == Get(final_status, "message", "Unknown error")
    IN  IF reviews = <<>>
        THEN [out |-> <<[kind |-> "no_reviews"]>>
                      \o (IF isError THEN <<[kind |-> "error_msg", msg |-> msg]>> ELSE <<>>),
              crash |-> ~hasStatus,
              code |-> IF isError \/ ~hasStatus THEN ErrorExit ELSE SuccessExit]
        ELSE [out |-> print_reviews(reviews, patch_count, isatty),
              crash |-> ~hasStatus,
              code |-> IF isError \/ ~hasStatus THEN ErrorExit ELSE SuccessExit]

\* lines 301-312 of main: the same for the --no-wait mode
render_nowait(final_status, isatty) ==
    LET reviews == Get(final_status, "review", <<>>)
        patch_count == Get(final_status, "patch_count", 0)
        hasStatus == "status" \in DOMAIN final_status
        isError == hasStatus /\ final_status.status = "error"
        msg == Get(final_status, "message", "Unknown error")
    IN  IF reviews # <<>>
        THEN [out |-> print_reviews(reviews, patch_count, isatty),
              crash |-> ~hasStatus,
              code |-> IF isError \/ ~hasStatus THEN ErrorExit ELSE SuccessExit]
        ELSE [out |-> IF isError THEN <<[kind |-> "error_msg", msg |-> msg]>> ELSE <<>>,
              crash |-> ~hasStatus,
              code |-> IF isError \/ ~hasStatus THEN ErrorExit ELSE SuccessExit]

(* ---------------- the command line and the environment ---------------- *)
PatchFiles == {"a.patch", "b.patch"}
\* f.read() of a patch file
Content(path) == <<"content of", path>>

\* values of --format tried: the default and one other choice
Formats == {"json", "inline"}
\* default of --poll-interval
PollInterval == 5

\* command lines without --review-id: every combination of the inputs
\* (a series ID of 0 is tried with at most one patch file)
SubmissionArgs ==
    {a \in [url : {"https://example.com/air"},
            token : {"mytoken"},
            tree : {None, Some("net-next")},
            branch : {None, Some("main")},
            format : Formats,
            poll_interval : {PollInterval},
            no_wait : BOOLEAN,
            pw_series : {None, Some(0), Some(7)},
            review_id : {None},
            patches : SeqsUpTo(PatchFiles, MaxPatches)] :
        a.pw_series = Some(0) => Len(a.patches) <= 1}

\* command lines with --review-id, alone or with submission inputs
CheckArgs ==
    [url : {"https://example.com/air"},
     token : {"mytoken"},
     tree : {None, Some("net-next")},
     branch : {None},
     format : Formats,
     poll_interval : {PollInterval},
     no_wait : BOOLEAN,
     pw_series : {None, Some(7)},
     review_id : {Some("abc")},
     patches : SeqsUpTo(PatchFiles, 1)]

ArgsSet == SubmissionArgs \cup CheckArgs

\* the states the service reports; "paused" stands for a state the client
\* does not know
ServerStates == {"queued", "in-progress", "done", "error", "paused"}

\* JSON objects the service may answer a GET with while in state s
StatusBodies(s) ==
    CASE s = "queued" -> {[status |-> s], With([status |-> s], "queue-len", 3)}
      [] s = "in-progress" -> {[status |-> s],
                               [status |-> s, patch_count |-> 2, completed_patches |-> 1]}
      [] s = "done" -> {[status |-> s], [status |-> s, patch_count |-> 2]}
      [] s = "error" -> {[status |-> s], [status |-> s, message |-> "boom"],
                         [status |-> s, message |-> "boom", patch_count |-> 2]}
      [] OTHER -> {[status |-> s]}

\* a JSON object without the 'status' key
NoStatusBody == [patch_count |-> 2]

ReviewTexts == {<<"looks good">>}
ReviewLists == SeqsUpTo({None} \cup {Some(t) : t \in ReviewTexts}, MaxReviews)

\* outcomes of requests.get(...) followed by response.json()
StatusReplies(s) ==
    {[kind |-> "transport"], [kind |-> "nonjson"]}
    \cup {[kind |-> "json", body |-> b] : b \in StatusBodies(s) \cup {NoStatusBody}}

ResultReplies(s) ==
    StatusReplies(s)
    \cup {[kind |-> "json", body |-> With(b, "review", r)] :
             b \in StatusBodies(s) \cup {NoStatusBody}, r \in ReviewLists}

ServerIds == {"r-1"}
\* outcomes of requests.post(...) followed by response.json()
PostReplies ==
    {[kind |-> "transport"], [kind |-> "nonjson"], [kind |-> "json", body |-> [queued |-> TRUE]]}
    \cup {[kind |-> "json", body |-> [review_id |-> i]] : i \in ServerIds}

(* ---------------- state ---------------- *)
VARIABLES
    args,               \* the parsed command line (argparse namespace)
    isatty,             \* sys.stdout.isatty()
    srv,                \* state of the review at the service
    pc,                 \* position of main
    review_id,          \* local review_id of main (None before it is set)
    is_new_submission,  \* local of main
    patches,            \* list built by read_patch_files
    status,             \* local status of main: the last status reply
    final_status,       \* local final_status of main
    last_line_len,      \* local of the polling loop
    lastwrite,          \* the last in-place write of the polling loop
    out,                \* what was printed to stdout, except in-place writes
    err,                \* what was printed to stderr
    calls,              \* network calls and sleeps of the run, in order
    events,             \* kinds of failure that occurred in the run
    exit_code           \* None while running, else the exit status

vars == <<args, isatty, srv, pc, review_id, is_new_submission, patches, status,
          final_status, last_line_len, lastwrite, out, err, calls, events, exit_code>>

locals == <<review_id, is_new_submission, patches, status, final_status,
            last_line_len, lastwrite>>

Init ==
    /\ args \in ArgsSet
    /\ isatty \in BOOLEAN
    /\ srv = "queued"
    /\ pc = "start"
    /\ review_id = None
    /\ is_new_submission = FALSE
    /\ patches = <<>>
    /\ status = None
    /\ final_status = None
    /\ last_line_len = 0
    /\ lastwrite = None
    /\ out = <<>>
    /\ err = <<>>
    /\ calls = <<>>
    /\ events = {}
    /\ exit_code = None

\* sys.exit(code), or main returning
Exit(code) == pc' = "exited" /\ exit_code' = Some(code)

Post(payload) == [op |-> "POST", json |-> payload]
GetCall(params) == [op |-> "GET", params |-> params]
SleepCall(secs) == [op |-> "sleep", secs |-> secs]

(* ---------------- main ---------------- *)
\* lines 247-263: argument validation
Validate ==
    /\ pc = "start"
    /\ IF IsCheckOnly(args)
       THEN /\ review_id' = args.review_id
            /\ is_new_submission' = FALSE
            /\ pc' = "dispatch"
            /\ UNCHANGED <<err, events, exit_code>>
       ELSE LET e == UsageError(args)
            IN  IF e # None
                THEN /\ err' = Append(err, [kind |-> "usage", msg |-> e[1]])
                     /\ events' = events \cup {"usage"}
                     /\ Exit(ParserErrorExit)
                     /\ UNCHANGED <<review_id, is_new_submission>>
                ELSE /\ is_new_submission' = TRUE
                     /\ pc' = "dispatch"
                     /\ UNCHANGED <<review_id, err, events, exit_code>>
    /\ UNCHANGED <<args, isatty, srv, patches, status, final_status,
                   last_line_len, lastwrite, out, calls>>

\* lines 266-274: a new submission starts
StartSubmission ==
    /\ pc = "dispatch"
    /\ is_new_submission
    /\ IF TruthyInt(args.pw_series)
       THEN /\ out' = Append(out, [kind |-> "submitting_series",
                                   series |-> args.pw_series[1], tree |-> args.tree[1]])
            /\ pc' = "post"
       ELSE /\ out' = Append(out, [kind |-> "reading", count |-> Len(args.patches)])
            /\ pc' = "read"
    /\ UNCHANGED <<args, isatty, srv, locals, err, calls, events, exit_code>>

\* mutant: the check of an existing review polls whatever --no-wait says
StartCheck_AlwaysPoll ==
    /\ pc = "dispatch"
    /\ ~is_new_submission
    /\ out' = Append(out, [kind |-> "checking", id |-> review_id[1]])
    /\ review_id' = args.review_id
    /\ pc' = "poll_fetch"
    /\ UNCHANGED <<args, isatty, srv, is_new_submission, patches, status, final_status,
                   last_line_len, lastwrite, err, calls, events, exit_code>>

\* lines 285-288: an existing review is checked
StartCheck ==
    /\ pc = "dispatch"
    /\ ~is_new_submission
    /\ out' = Append(out, [kind |-> "checking", id |-> review_id[1]])
    /\ review_id' = args.review_id
    /\ pc' = IF args.no_wait THEN "nowait_fetch" ELSE "poll_fetch"
    /\ UNCHANGED <<args, isatty, srv, is_new_submission, patches, status, final_status,
                   last_line_len, lastwrite, err, calls, events, exit_code>>

\* mutant: a patch file that cannot be read is reported and skipped
ReadPatchFile_SkipUnreadable ==
    /\ pc = "read"
    /\ Len(patches) < Len(args.patches)
    /\ LET path == args.patches[Len(patches) + 1]
       IN  \E outcome \in {"ok", "FileNotFoundError", "Exception"} :
             /\ patches' = Append(patches, IF outcome = "ok" THEN Content(path) ELSE <<>>)
             /\ IF Len(patches) + 1 = Len(args.patches)
                THEN /\ out' = Append(out, [kind |-> "submitting", tree |-> args.tree[1]])
                     /\ pc' = "post"
                ELSE UNCHANGED <<out, pc>>
             /\ IF outcome = "ok"
                THEN UNCHANGED <<err, events>>
                ELSE /\ err' = Append(err, [kind |-> outcome, path |-> path])
                     /\ events' = events \cup {"file"}
             /\ UNCHANGED exit_code
    /\ UNCHANGED <<args, isatty, srv, review_id, is_new_submission, status, final_status,
                   last_line_len, lastwrite, calls>>

\* lines 50-59 of read_patch_files: one iteration; after the last file
\* line 274 of main prints and submit_review is entered
ReadPatchFile ==
    /\ pc = "read"
    /\ Len(patches) < Len(args.patches)
    /\ LET path == args.patches[Len(patches) + 1]
       IN  \E outcome \in {"ok", "FileNotFoundError", "Exception"} :
             IF outcome = "ok"
             THEN /\ patches' = Append(patches, Content(path))
                  /\ IF Len(patches) + 1 = Len(args.patches)
                     THEN /\ out' = Append(out, [kind |-> "submitting", tree |-> args.tree[1]])
                          /\ pc' = "post"
                     ELSE UNCHANGED <<out, pc>>
                  /\ UNCHANGED <<err, events, exit_code>>
             ELSE /\ err' = Append(err, [kind |-> outcome, path |-> path])
                  /\ events' = events \cup {"file"}
                  /\ Exit(ErrorExit)
                  /\ UNCHANGED <<patches, out>>
    /\ UNCHANGED <<args, isatty, srv, review_id, is_new_submission, status, final_status,
                   last_line_len, lastwrite, calls>>

\* submit_review (lines 79-107) as called at lines 269 and 275, and
\* lines 278-284 of main
SubmitReview ==
    /\ pc = "post"
    /\ LET payload == IF TruthyInt(args.pw_series)
                      THEN submit_payload(args.token, args.tree[1], args.branch,
                                          None, args.pw_series)
                      ELSE submit_payload(args.token, args.tree[1], args.branch,
                                          Some(patches), None)
       IN  IF payload = None
           THEN /\ err' = Append(err, [kind |-> "no_input"])
                /\ events' = events \cup {"usage"}
                /\ Exit(ErrorExit)
                /\ UNCHANGED <<review_id, out, calls>>
           ELSE /\ calls' = Append(calls, Post(payload[1]))
                /\ \E reply \in PostReplies :
                     IF reply.kind = "transport"
                     THEN /\ err' = Append(err, [kind |-> "submit_failed"])
                          /\ events' = events \cup {"transport"}
                          /\ Exit(ErrorExit)
                          /\ UNCHANGED <<review_id, out>>
                     ELSE IF reply.kind = "nonjson" \/ "review_id" \notin DOMAIN reply.body
                     THEN /\ err' = Append(err, [kind |-> "parse_failed"])
                          /\ events' = events \cup {"malformed"}
                          /\ Exit(ErrorExit)
                          /\ UNCHANGED <<review_id, out>>
                     ELSE /\ review_id' = Some(reply.body.review_id)
                          /\ IF args.no_wait
                             THEN /\ out' = out \o <<[kind |-> "review_id",
                                                      id |-> reply.body.review_id],
                                                     [kind |-> "submission_complete"]>>
                                  /\ Exit(SuccessExit)
                             ELSE /\ out' = out \o <<[kind |-> "review_id",
                                                      id |-> reply.body.review_id],
                                                     [kind |-> "monitoring",
                                                      secs |-> args.poll_interval]>>
                                  /\ pc' = "poll_fetch"
                                  /\ UNCHANGED exit_code
                          /\ UNCHANGED <<err, events>>
    /\ UNCHANGED <<args, isatty, srv, is_new_submission, patches, status, final_status,
                   last_line_len, lastwrite>>

\* the calls of the run of one kind
CallsOf(op) == SelectSeq(calls, LAMBDA c : c.op = op)
Gets == CallsOf("GET")
StatusGets == SelectSeq(Gets, LAMBDA c : "format" \notin DOMAIN c.params)
ResultGets == SelectSeq(Gets, LAMBDA c : "format" \in DOMAIN c.params)

\* mutant: a failed request is reported and tried again
GetFailed_Retry(reply) ==
    /\ err' = Append(err, [kind |-> IF reply.kind = "transport"
                                    THEN "query_failed" ELSE "parse_failed"])
    /\ events' = events \cup {IF reply.kind = "transport" THEN "transport" ELSE "malformed"}
    /\ pc' = IF pc = "poll_wait" THEN "poll_fetch" ELSE pc
    /\ exit_code' = exit_code

\* the except clauses of get_review_status (lines 136-141)
GetFailed(reply) ==
    /\ err' = Append(err, [kind |-> IF reply.kind = "transport"
                                    THEN "query_failed" ELSE "parse_failed"])
    /\ events' = events \cup {IF reply.kind = "transport" THEN "transport" ELSE "malformed"}
    /\ Exit(ErrorExit)

\* status['status'] raises KeyError, which nothing catches: traceback, status 1
KeyErrorCrash ==
    /\ err' = Append(err, [kind |-> "traceback", exc |-> "KeyError"])
    /\ events' = events \cup {"malformed"}
    /\ Exit(ErrorExit)

\* line 318, first half: the polling loop sends its status request
PollSend ==
    /\ pc = "poll_fetch"
    /\ Len(StatusGets) < MaxPolls
    /\ calls' = Append(calls, GetCall(get_params(args.token, review_id[1], None)))
    /\ pc' = "poll_wait"
    /\ UNCHANGED <<args, isatty, srv, locals, out, err, events, exit_code>>

\* mutant: line 324 is left out, the stored length is never updated
PollRecv_StaleLen ==
    /\ pc = "poll_wait"
    /\ \E reply \in StatusReplies(srv) :
         IF reply.kind # "json"
         THEN /\ GetFailed(reply)
              /\ UNCHANGED <<status, last_line_len, lastwrite, out>>
         ELSE /\ status' = Some(reply.body)
              /\ IF "status" \notin DOMAIN reply.body
                 THEN /\ KeyErrorCrash
                      /\ UNCHANGED <<last_line_len, lastwrite, out>>
                 ELSE LET status_line == format_status_line(reply.body, isatty)
                      IN  /\ lastwrite' = Some([blank |-> last_line_len, line |-> status_line])
                          /\ last_line_len' = last_line_len
                          /\ IF IsTerminal(reply.body.status)
                             THEN /\ out' = Append(out, [kind |-> "newline"])
                                  /\ pc' = "final_fetch"
                             ELSE /\ pc' = "poll_sleep"
                                  /\ out' = out
                          /\ UNCHANGED <<err, events, exit_code>>
    /\ UNCHANGED <<args, isatty, srv, review_id, is_new_submission, patches,
                   final_status, calls>>

\* lines 318-329: the reply arrives, the status line is written in place,
\* and the loop is left on a terminal state
PollRecv ==
    /\ pc = "poll_wait"
    /\ \E reply \in StatusReplies(srv) :
         IF reply.kind # "json"
         THEN /\ GetFailed(reply)
              /\ UNCHANGED <<status, last_line_len, lastwrite, out>>
         ELSE /\ status' = Some(reply.body)
              /\ IF "status" \notin DOMAIN reply.body
                 THEN /\ KeyErrorCrash
                      /\ UNCHANGED <<last_line_len, lastwrite, out>>
                 ELSE LET status_line == format_status_line(reply.body, isatty)
                      IN  /\ lastwrite' = Some([blank |-> last_line_len, line |-> status_line])
                          /\ last_line_len' = StrLen(status_line)
                          /\ IF IsTerminal(reply.body.status)
                             THEN /\ out' = Append(out, [kind |-> "newline"])
                                  /\ pc' = "final_fetch"
                             ELSE /\ pc' = "poll_sleep"
                                  /\ out' = out
                          /\ UNCHANGED <<err, events, exit_code>>
    /\ UNCHANGED <<args, isatty, srv, review_id, is_new_submission, patches,
                   final_status, calls>>

\* line 331: time.sleep(args.poll_interval)
Sleep ==
    /\ pc = "poll_sleep"
    /\ calls' = Append(calls, SleepCall(args.poll_interval))
    /\ pc' = "poll_fetch"
    /\ UNCHANGED <<args, isatty, srv, locals, out, err, events, exit_code>>

\* mutant: the try block covers the sleep only
LoopPcs_SleepOnly == {"poll_sleep"}

\* lines 316-332: the positions of main inside the try block
LoopPcs == {"poll_fetch", "poll_wait", "poll_sleep"}
\* lines 332-334: KeyboardInterrupt raised inside the try block
Interrupt ==
    /\ pc \in LoopPcs
    /\ out' = Append(out, [kind |-> "interrupted", id |-> review_id[1]])
    /\ events' = events \cup {"interrupt"}
    /\ Exit(ErrorExit)
    /\ UNCHANGED <<args, isatty, srv, locals, err, calls>>

\* lines 337-354: the results are fetched and printed
FinalFetch ==
    /\ pc = "final_fetch"
    /\ calls' = Append(calls, GetCall(get_params(args.token, review_id[1], Some(args.format))))
    /\ \E reply \in ResultReplies(srv) :
         IF reply.kind # "json"
         THEN /\ GetFailed(reply)
              /\ out' = Append(out, [kind |-> "fetching"])
              /\ UNCHANGED final_status
         ELSE LET r == render_poll(reply.body, isatty)
              IN  /\ final_status' = Some(reply.body)
                  /\ out' = out \o <<[kind |-> "fetching"]>> \o r.out
                  /\ IF r.crash
                     THEN KeyErrorCrash
                     ELSE /\ Exit(r.code)
                          /\ events' = events \cup (IF reply.body.status = "error"
                                                    THEN {"review_error"} ELSE {})
                          /\ err' = err
    /\ UNCHANGED <<args, isatty, srv, review_id, is_new_submission, patches, status,
                   last_line_len, lastwrite>>

\* lines 293-298: --no-wait checks once
NoWaitFetch ==
    /\ pc = "nowait_fetch"
    /\ calls' = Append(calls, GetCall(get_params(args.token, review_id[1], None)))
    /\ \E reply \in StatusReplies(srv) :
         IF reply.kind # "json"
         THEN /\ GetFailed(reply)
              /\ UNCHANGED <<status, out>>
         ELSE /\ status' = Some(reply.body)
              /\ IF "status" \notin DOMAIN reply.body
                 THEN /\ KeyErrorCrash
                      /\ out' = out
                 ELSE /\ out' = Append(out, [kind |-> "status_line",
                                             line |-> format_status_line(reply.body, isatty)])
                      /\ IF IsTerminal(reply.body.status)
                         THEN pc' = "nowait_final" /\ exit_code' = exit_code
                         ELSE Exit(SuccessExit)
                      /\ UNCHANGED <<err, events>>
    /\ UNCHANGED <<args, isatty, srv, review_id, is_new_submission, patches,
                   final_status, last_line_len, lastwrite>>

\* lines 299-312: --no-wait fetches and prints the results of a finished review
NoWaitFinal ==
    /\ pc = "nowait_final"
    /\ calls' = Append(calls, GetCall(get_params(args.token, review_id[1], Some(args.format))))
    /\ \E reply \in ResultReplies(srv) :
         IF reply.kind # "json"
         THEN /\ GetFailed(reply)
              /\ out' = Append(out, [kind |-> "fetching"])
              /\ UNCHANGED final_status
         ELSE LET r == render_nowait(reply.body, isatty)
              IN  /\ final_status' = Some(reply.body)
                  /\ out' = out \o <<[kind |-> "fetching"]>> \o r.out
                  /\ IF r.crash
                     THEN KeyErrorCrash
                     ELSE /\ Exit(r.code)
                          /\ events' = events \cup (IF reply.body.status = "error"
                                                    THEN {"review_error"} ELSE {})
                          /\ err' = err
    /\ UNCHANGED <<args, isatty, srv, review_id, is_new_submission, patches, status,
                   last_line_len, lastwrite>>

\* KeyboardInterrupt raised outside the try block of lines 316-334: nothing
\* catches it
InterruptOutside ==
    /\ pc \notin LoopPcs \cup {"exited"}
    /\ err' = Append(err, [kind |-> "traceback", exc |-> "KeyboardInterrupt"])
    /\ events' = events \cup {"interrupt"}
    /\ \E code \in UncaughtInterruptExits : Exit(code)
    /\ UNCHANGED <<args, isatty, srv, locals, out, calls>>

\* the service moves the review to another state; the client can tell only
\* when it asks, so the step is taken right before a request
ServerStep ==
    /\ pc \in {"poll_fetch", "final_fetch", "nowait_fetch", "nowait_final"}
    /\ srv' \in ServerStates \ {srv}
    /\ UNCHANGED <<args, isatty, pc, locals, out, err, calls, events, exit_code>>

Next ==
    \/ Validate
    \/ StartSubmission
    \/ StartCheck
    \/ ReadPatchFile
    \/ SubmitReview
    \/ PollSend
    \/ PollRecv
    \/ Sleep
    \/ Interrupt
    \/ FinalFetch
    \/ NoWaitFetch
    \/ NoWaitFinal
    \/ InterruptOutside
    \/ ServerStep

Spec == Init /\ [][Next]_vars

(* ---------------- polling against a service that makes progress ---------------- *)
\* the states a review moves to next: queued, then in-progress, then done
\* or error
ForwardStep(s) ==
    CASE s = "queued" -> {"in-progress"}
      [] s = "in-progress" -> {"done", "error"}
      [] OTHER -> {}

\* the service moves the review forward, at any time
ServerAdvance ==
    /\ pc # "exited"
    /\ srv' \in ForwardStep(srv)
    /\ UNCHANGED <<args, isatty, pc, locals, out, err, calls, events, exit_code>>

\* line 318, first half; the loop is not bounded here, and calls keeps the
\* first MaxPolls status requests only
LivePollSend ==
    /\ pc = "poll_fetch"
    /\ calls' = IF Len(StatusGets) < MaxPolls
                THEN Append(calls, GetCall(get_params(args.token, review_id[1], None)))
                ELSE calls
    /\ pc' = "poll_wait"
    /\ UNCHANGED <<args, isatty, srv, locals, out, err, events, exit_code>>

\* line 331; calls keeps the first MaxPolls sleeps only
LiveSleep ==
    /\ pc = "poll_sleep"
    /\ calls' = IF Len(CallsOf("sleep")) < MaxPolls
                THEN Append(calls, SleepCall(args.poll_interval))
                ELSE calls
    /\ pc' = "poll_fetch"
    /\ UNCHANGED <<args, isatty, srv, locals, out, err, events, exit_code>>

\* the steps of main in which no file read and no request fails
LiveRead == ReadPatchFile /\ events' = events
LiveSubmit == SubmitReview /\ events' = events
LivePollRecv == PollRecv /\ events' = events
LiveFinalFetch == FinalFetch /\ events' \cap {"transport", "malformed"} = {}

LiveInit == Init /\ ~args.no_wait

LiveNext ==
    \/ Validate
    \/ StartSubmission
    \/ StartCheck
    \/ LiveRead
    \/ LiveSubmit
    \/ LivePollSend
    \/ LivePollRecv
    \/ LiveSleep
    \/ LiveFinalFetch
    \/ ServerAdvance

\* the process keeps running (every request returns within its timeout, the
\* sleep returns), and the service keeps moving the review forward
LiveSpec ==
    /\ LiveInit
    /\ [][LiveNext]_vars
    /\ WF_vars(LivePollSend)
    /\ WF_vars(LivePollRecv)
    /\ WF_vars(LiveSleep)
    /\ WF_vars(LiveFinalFetch)
    /\ WF_vars(ServerAdvance)

(* ======================= properties ======================= *)
Posts == CallsOf("POST")
Sleeps == CallsOf("sleep")
\* the calls of the polling loop: status requests and sleeps
LoopCalls == SelectSeq(calls, LAMBDA c : c.op = "sleep"
                                 \/ (c.op = "GET" /\ "format" \notin DOMAIN c.params))
Exited == pc = "exited"
\* the last status reply carried a terminal state
TerminalSeen ==
    /\ status # None
    /\ "status" \in DOMAIN status[1]
    /\ status[1].status \in {"done", "error"}
NonTerminalSeen ==
    /\ status # None
    /\ "status" \in DOMAIN status[1]
    /\ status[1].status \notin {"done", "error"}
\* the sections printed by the run
Sections == SelectSeq(out, LAMBDA o : o.kind = "section")
\* an interrupt hit the run outside the polling loop
UncaughtInterrupt == \E i \in DOMAIN err : err[i] = [kind |-> "traceback",
                                                     exc |-> "KeyboardInterrupt"]
PatchesGiven == args.patches # <<>>
ReviewIdGiven == args.review_id # None

\* C1: in polling mode the loop alternates status fetch and sleep, starting
\* with a fetch and sleeping the poll interval; it is left exactly when a
\* reply carries done or error, and after such a reply the loop neither
\* fetches nor sleeps again.
C1_PollOncePerInterval ==
    ~args.no_wait =>
        /\ \A i \in DOMAIN LoopCalls :
              IF i % 2 = 1
              THEN LoopCalls[i].op = "GET"
              ELSE LoopCalls[i] = [op |-> "sleep", secs |-> args.poll_interval]
        /\ TerminalSeen =>
              /\ pc \in {"final_fetch", "exited"}
              /\ Len(LoopCalls) % 2 = 1
        /\ pc = "final_fetch" => TerminalSeen
        /\ pc = "poll_sleep" => NonTerminalSeen

C1_Witness ==
    /\ ~args.no_wait
    /\ pc = "final_fetch"
    /\ TerminalSeen
    /\ Len(Sleeps) >= 1

C3_Original ==
    ReviewIdGiven /\ (PatchesGiven \/ args.pw_series # None) =>
        /\ calls = <<>>
        /\ Exited /\ ~UncaughtInterrupt => exit_code = Some(1)

\* C3 (amended): --review-id takes precedence over the submission inputs:
\* an invocation with --review-id and with patch files or --pw-series is not
\* rejected; the submission inputs are ignored (no usage error, no patch
\* file read, no POST) and the run checks the review given.
C3_ReviewIdTakesPrecedence ==
    ReviewIdGiven /\ (PatchesGiven \/ args.pw_series # None) =>
        /\ "usage" \notin events
        /\ "file" \notin events
        /\ patches = <<>>
        /\ Posts = <<>>
        /\ pc \notin {"read", "post"}
        /\ \A i \in DOMAIN Gets : Gets[i].params.id = args.review_id[1]

C3_Witness ==
    /\ ReviewIdGiven
    /\ PatchesGiven
    /\ args.pw_series # None
    /\ Len(Gets) >= 1
    /\ Exited
    /\ exit_code = Some(0)

\* C4: in check-only mode (--review-id, no patch files, no series ID) the
\* run never issues a POST and every GET carries the review ID given.
C4_CheckOnlyNoPost ==
    ReviewIdGiven /\ ~PatchesGiven /\ args.pw_series = None =>
        /\ Posts = <<>>
        /\ \A i \in DOMAIN Gets :
              /\ Gets[i].params.id = args.review_id[1]
              /\ Gets[i].params.token = args.token

C4_Witness ==
    /\ ReviewIdGiven /\ ~PatchesGiven /\ args.pw_series = None
    /\ Len(StatusGets) >= 2
    /\ Len(ResultGets) = 1

\* the run has printed the results of a final reply
Rendered == Exited /\ final_status # None
FinalReviews == Get(final_status[1], "review", <<>>)
FinalPatchCount == Get(final_status[1], "patch_count", 0)
NoComments == colorize(<<"No review comments">>, Colors.GREEN, isatty)

\* C5 (as stated): print_reviews, called with the reviews and the patch_count
\* of the final reply, prints exactly patch_count numbered sections, however
\* many entries the reviews list has.
C5_Original ==
    (Rendered /\ FinalReviews # <<>>) => Len(Sections) = FinalPatchCount

\* C5 (amended): the run prints exactly one numbered section per entry of
\* the reviews list, in the order of the list, whatever patch_count is
\* (patch_count only appears in the headers "PATCH i/patch_count"); an entry
\* that is None renders as the 'no comments' marker, any other entry as its
\* text; an index without an entry gets no section.
C5_OneSectionPerEntry ==
    Rendered =>
        /\ Len(Sections) = Len(FinalReviews)
        /\ \A i \in DOMAIN Sections :
              /\ Sections[i].header =
                    colorize(<<"PATCH ", Str(i), "/", Str(FinalPatchCount)>>,
                             Colors.BOLD \o Colors.BLUE, isatty)
              /\ Sections[i].body = IF FinalReviews[i] = None
                                    THEN NoComments ELSE FinalReviews[i][1]

C5_Witness ==
    /\ Rendered
    /\ Len(FinalReviews) = 1
    /\ FinalReviews[1] = None
    /\ FinalPatchCount = 2
    /\ Len(Sections) = 1

\* C6: an interrupt delivered while the run is in the polling loop (before a
\* status fetch, during it, or during the sleep) prints the review ID of the
\* run and ends the run with exit status 1; no request with a format has
\* been issued by then, and the ended run issues no call at all.
C6_InterruptInLoop ==
    [][/\ (pc \in {"poll_fetch", "poll_wait", "poll_sleep"}
           /\ "interrupt" \notin events /\ "interrupt" \in events') =>
              /\ out' = Append(out, [kind |-> "interrupted", id |-> review_id[1]])
              /\ pc' = "exited"
              /\ exit_code' = Some(1)
              /\ err' = err
              /\ calls' = calls
              /\ ResultGets = <<>>
       /\ pc = "exited" => calls' = calls /\ pc' = "exited"]_vars

C6_Witness ==
    /\ Exited
    /\ "interrupt" \in events
    /\ out # <<>>
    /\ out[Len(out)].kind = "interrupted"
    /\ Len(StatusGets) = 2
    /\ Len(Sleeps) = 1

\* the exit status the events of a run call for
ExpectedExit(usage) ==
    IF "usage" \in events THEN usage
    ELSE IF events # {} THEN 1 ELSE 0

\* C7 (as stated): a run that ended has exit status 0 or 1: 1 when a usage
\* error, transport failure, malformed response, file-read failure, final
\* state error or interrupt occurred, 0 when none did.
C7_Original ==
    Exited =>
        /\ exit_code \in {Some(0), Some(1)}
        /\ exit_code = Some(ExpectedExit(1))

\* C7 (amended): a run that ended and was not interrupted outside the
\* polling loop has exit status 0, 1 or 2: 2 when a usage error occurred
\* (parser.error), 1 when a transport failure, malformed response, file-read
\* failure, final state error or interrupt in the polling loop occurred, 0
\* when none did. A run interrupted outside the polling loop dies of the
\* uncaught KeyboardInterrupt (status 1, or killed by SIGINT).
C7_ExitCodes ==
    Exited =>
        IF UncaughtInterrupt
        THEN exit_code \in {Some(1), Some(130)}
        ELSE exit_code = Some(ExpectedExit(2))

C7_Witness ==
    /\ Exited
    /\ events = {"review_error"}
    /\ Sections # <<>>
    /\ exit_code = Some(1)

\* C8: when the final results fetch returns state error, in either mode and
\* with or without reviews in the reply, the run prints the reviews of the
\* reply, prints the error message the reply carries, and exits with a
\* non-zero status.
C8_ErrorReplyRendered ==
    (Rendered /\ "status" \in DOMAIN final_status[1]
              /\ final_status[1].status = "error") =>
        /\ Len(Sections) = Len(FinalReviews)
        /\ "message" \in DOMAIN final_status[1] =>
              \E i \in DOMAIN out :
                 out[i] = [kind |-> "error_msg", msg |-> final_status[1].message]
        /\ exit_code # Some(0)

\* a request failed in transport or its reply was malformed
RequestFailed(ev) == ev \cap {"transport", "malformed"} # {}

\* C9: when the POST or a GET fails in transport or has a malformed reply,
\* the failure is reported once on stderr and the run ends at once with exit
\* status 1; the failing request is not repeated and no call follows it.
C9_NoRetry ==
    [][/\ (~RequestFailed(events) /\ RequestFailed(events')) =>
              /\ Len(err') = Len(err) + 1
              /\ pc' = "exited"
              /\ exit_code' = Some(1)
              /\ Len(calls') <= Len(calls) + 1
       /\ RequestFailed(events) =>
              /\ calls' = calls
              /\ err' = err
              /\ pc' = "exited"]_vars

C9_Witness ==
    /\ Exited
    /\ "transport" \in events
    /\ Len(StatusGets) = 2
    /\ Len(err) = 1
    /\ exit_code = Some(1)

\* C10: in check-only mode with --no-wait, once the status fetch returned a
\* non-terminal state the status line of that reply has been printed and the
\* run has ended (status 0) with exactly one GET, no POST and no sleep; for
\* queued with queue-len 3 the line names "queued" and "3".
C10_NoWaitNonTerminal ==
    (ReviewIdGiven /\ args.no_wait /\ NonTerminalSeen) =>
        /\ Exited
        /\ exit_code = Some(0)
        /\ calls = <<[op |-> "GET",
                      params |-> [id |-> args.review_id[1], token |-> args.token]]>>
        /\ out[Len(out)] = [kind |-> "status_line",
                            line |-> format_status_line(status[1], isatty)]
        /\ (status[1].status = "queued" /\ "queue-len" \in DOMAIN status[1]) =>
              out[Len(out)].line =
                 <<"Status: ">> \o colorize(<<"queued">>, <<"ESC[96m">>, isatty)
                    \o <<" (patches ahead: ", "3", ")">>

C10_Witness ==
    /\ ReviewIdGiven /\ args.no_wait /\ ~PatchesGiven /\ args.pw_series = None
    /\ NonTerminalSeen
    /\ status[1] = [x \in {"status", "queue-len"} |-> IF x = "status" THEN "queued" ELSE 3]
    /\ Exited


\* C11: with --no-wait the run never sleeps. A submission run issues no GET
\* and at most one POST; when nothing failed it ends with exit status 0
\* after exactly one POST, the review ID the POST returned being printed. A
\* check-only run issues no POST, at most one status-only GET and at most one
\* results GET, the status-only GET first.
C11_NoWaitNeverPolls ==
    args.no_wait =>
        /\ Sleeps = <<>>
        /\ pc \notin {"poll_fetch", "poll_wait", "poll_sleep", "final_fetch"}
        /\ ~ReviewIdGiven =>
              /\ Gets = <<>>
              /\ Len(calls) <= 1
              /\ (Exited /\ events = {}) =>
                    /\ Len(Posts) = 1
                    /\ exit_code = Some(0)
                    /\ review_id # None
                    /\ \E i \in DOMAIN out :
                          out[i] = [kind |-> "review_id", id |-> review_id[1]]
        /\ ReviewIdGiven =>
              /\ Posts = <<>>
              /\ Len(calls) <= 2
              /\ Len(calls) >= 1 => calls[1] = GetCall([id |-> args.review_id[1],
                                                        token |-> args.token])
              /\ Len(calls) = 2 => calls[2] = GetCall([id |-> args.review_id[1],
                                                       token |-> args.token,
                                                       format |-> args.format])

C11_Witness ==
    /\ args.no_wait
    /\ ~ReviewIdGiven
    /\ Exited
    /\ exit_code = Some(0)
    /\ Len(Posts) = 1


\* the run submits patch files
PatchFileMode == ~ReviewIdGiven /\ PatchesGiven /\ ~TruthyInt(args.pw_series)
\* the contents of the first n patch files of the command line
ContentsOf(n) == [i \in 1..n |-> Content(args.patches[i])]

\* C12: in patch-file submission mode a failure to read a file ends the run
\* at once with exit status 1 and one message on stderr naming the path of
\* that file, the first one in argument order that could not be read (the
\* files before it have been read); no POST and no GET is issued in such a
\* run, and a POST is issued only when every file has been read.
C12_FileReadFailure ==
    PatchFileMode =>
        /\ "file" \in events =>
              /\ Exited
              /\ exit_code = Some(1)
              /\ calls = <<>>
              /\ Len(patches) < Len(args.patches)
              /\ patches = ContentsOf(Len(patches))
              /\ Len(err) = 1
              /\ err[1].kind \in {"FileNotFoundError", "Exception"}
              /\ err[1].path = args.patches[Len(patches) + 1]
        /\ calls # <<>> =>
              /\ "file" \notin events
              /\ patches = ContentsOf(Len(args.patches))

C12_Witness ==
    /\ PatchFileMode
    /\ "file" \in events
    /\ Len(args.patches) = 2
    /\ Len(patches) = 1
    /\ Exited


\* C13: a patch-file submission run issues at most one POST, and exactly one
\* once all files are read and the run went on; the 'patches' array of its
\* body holds the contents of the patch files of the command line, one entry
\* per file, in the order of the command line.
C13_PatchesInOrder ==
    PatchFileMode =>
        /\ Len(Posts) <= 1
        /\ (pc \in {"poll_fetch", "poll_wait", "poll_sleep", "final_fetch"}
            \/ (Exited /\ events \cap {"usage", "file"} = {} /\ ~UncaughtInterrupt)) =>
              Len(Posts) = 1
        /\ Posts # <<>> =>
              /\ "patches" \in DOMAIN Posts[1].json
              /\ Len(Posts[1].json.patches) = Len(args.patches)
              /\ \A i \in DOMAIN args.patches :
                    Posts[1].json.patches[i] = <<"content of", args.patches[i]>>

C13_Witness ==
    /\ PatchFileMode
    /\ args.patches = <<"a.patch", "b.patch">>
    /\ Len(Posts) = 1
    /\ Posts[1].json.patches = << <<"content of", "a.patch">>, <<"content of", "b.patch">> >>


\* C14: a status reply that is a JSON object without the 'status' key ends
\* the run like a submit reply without 'review_id': one "Error parsing
\* response" message on stderr and exit status 1, and no traceback of an
\* uncaught exception.
C14_MissingStatusIsProtocolError ==
    (status # None /\ "status" \notin DOMAIN status[1]) =>
        /\ Exited
        /\ exit_code = Some(1)
        /\ err = <<[kind |-> "parse_failed"]>>


\* C15: in polling mode the request that carries the format is issued at
\* most once, it is the last call of the run, every GET before it is a
\* status-only request without a format, it carries the format of the
\* command line, and it is issued only when the last reply of the loop
\* carried done or error; a run that left the loop on a terminal state and
\* ended (other than by an interrupt) has issued it exactly once.
C15_FormatOnlyAfterLoop ==
    ~args.no_wait =>
        /\ Len(ResultGets) <= 1
        /\ \A i \in DOMAIN calls :
              (calls[i].op = "GET" /\ "format" \in DOMAIN calls[i].params) =>
                 /\ i = Len(calls)
                 /\ calls[i].params.format = args.format
                 /\ TerminalSeen
                 /\ i > 1 /\ calls[i - 1].op = "GET"
                 /\ Len(StatusGets) = Len(Sleeps) + 1
        /\ pc \in {"poll_fetch", "poll_wait", "poll_sleep", "final_fetch"} =>
              ResultGets = <<>>
        /\ (Exited /\ TerminalSeen /\ "interrupt" \notin events) => Len(ResultGets) = 1

C15_Witness ==
    /\ ~args.no_wait
    /\ Exited
    /\ Len(StatusGets) = 2
    /\ Len(ResultGets) = 1
    /\ calls[Len(calls)].params.format = "json"


\* C16: against a service that only moves the review forward and keeps doing
\* so, and without transport failure, malformed reply or interrupt, a run
\* that has entered the polling loop eventually leaves it, issues the
\* results request once and ends.
C16_PollingTerminates ==
    (pc = "poll_fetch") ~>
        (/\ pc = "exited"
         /\ Len(SelectSeq(calls, LAMBDA c : c.op = "GET" /\ "format" \in DOMAIN c.params)) = 1
         /\ final_status # None
         /\ final_status[1].status \in {"done", "error"}
         /\ exit_code \in {Some(0), Some(1)})

C16_Witness ==
    /\ ~args.no_wait
    /\ Exited
    /\ srv = "error"
    /\ Len(StatusGets) = 2
    /\ Len(Sleeps) = 2
    /\ Len(ResultGets) = 1
    /\ lastwrite # None /\ lastwrite[1].blank > 0


KnownStates == {"queued", "in-progress", "done", "error"}

C18_EmptyDoneIsNoReviews ==
    (/\ Exited
     /\ final_status # None
     /\ "status" \in DOMAIN final_status[1]
     /\ final_status[1].status = "done"
     /\ FinalReviews = <<>>) =>
        /\ exit_code = Some(0)
        /\ err = <<>>
        /\ \E i \in DOMAIN out : out[i] = [kind |-> "no_reviews"]

\* the same in polling mode only, where it holds (lines 340-354)
C18_PollingModeOnly == ~args.no_wait => C18_EmptyDoneIsNoReviews


\* C19: the review ID is set once, by the reply to the POST or from
\* --review-id, and never changes afterwards; no GET is issued before it is
\* set, and every GET of the run, status or results, carries it.
C19_ReviewIdFixed ==
    [][/\ review_id # None => review_id' = review_id
       /\ (review_id = None /\ review_id' # None) =>
             /\ Gets = <<>>
             /\ ReviewIdGiven => review_id' = args.review_id /\ calls' = <<>>
             /\ ~ReviewIdGiven =>
                   /\ calls' = Append(calls, calls'[Len(calls')])
                   /\ calls'[Len(calls')].op = "POST"
                   /\ Len(SelectSeq(calls', LAMBDA c : c.op = "POST")) = 1
       /\ \A i \in DOMAIN calls' :
             calls'[i].op = "GET" =>
                /\ review_id' # None
                /\ calls'[i].params.id = review_id'[1]
      ]_vars

C19_Witness ==
    /\ ~ReviewIdGiven
    /\ ~args.no_wait
    /\ Exited
    /\ review_id = Some("r-1")
    /\ Len(StatusGets) = 2
    /\ Len(ResultGets) = 1
    /\ \A i \in DOMAIN Gets : Gets[i].params.id = "r-1"


\* C20: in the polling loop the stored length of the last line is 0 until
\* the first status line is written and afterwards is the length of the
\* status line written last (its characters, colour codes included); each
\* write first blanks as many characters as the line written before it had
\* (none before the first), and the status lines are written in place, not
\* appended to the output.
C20_LastLineLen ==
    /\ [](/\ lastwrite = None => last_line_len = 0
          /\ lastwrite # None =>
                /\ last_line_len = StrLen(lastwrite[1].line)
                /\ last_line_len >= 14
                /\ lastwrite[1].line = <<"Status: ", "paused">> => last_line_len = 14
                /\ lastwrite[1].line = <<"Status: ", "queued", " (patches ahead: ", "?", ")">>
                      => last_line_len = 33
                /\ lastwrite[1].line = <<"Status: ", "ESC[96m", "queued", "ESC[0m",
                                         " (patches ahead: ", "?", ")">>
                      => last_line_len = 42
          /\ args.no_wait => lastwrite = None)
    /\ [][(pc = "poll_wait" /\ pc' \in {"poll_sleep", "final_fetch"}) =>
             /\ lastwrite' # None
             /\ lastwrite'[1].blank = last_line_len
             /\ lastwrite = None => lastwrite'[1].blank = 0
             /\ lastwrite # None => lastwrite'[1].blank = StrLen(lastwrite[1].line)
             /\ lastwrite'[1].line = format_status_line(status'[1], isatty)
             /\ \A i \in DOMAIN out' : out'[i].kind # "status_line"
         ]_vars

C20_Witness ==
    /\ isatty
    /\ pc = "final_fetch"
    /\ lastwrite # None
    /\ lastwrite[1].blank = 42
    /\ last_line_len < 42
    /\ Len(StatusGets) = 2

====
